---- MODULE Spec2Model ----
(***************************************************************************)
(* Model of src/mockServer.cjs: an Express server that loads an OpenAPI    *)
(* document from a URL, registers one mock route per operation, and        *)
(* answers /endpoints with a normalized, paginated endpoint list.          *)
(*                                                                         *)
(* JSON values are tagged records.  A JSON string is kept as the sequence  *)
(* of its "/"-separated segments, so that String.prototype.split("/") is   *)
(* computable: "#/components/schemas/Pet" is                               *)
(* Str(<<"#","components","schemas","Pet">>) and "alice" is S("alice").    *)
(* A JSON object is the ordered sequence of its <<key, value>> pairs (JS   *)
(* keeps insertion order for non-integer keys).  A function that can raise *)
(* returns either its value or Throw(name).                                *)
(***************************************************************************)
EXTENDS Integers, Sequences, FiniteSets, TLC

VARIABLES swaggerData, mockRoutes, stack, pending, resp, loadedOk, call

vars == <<swaggerData, mockRoutes, stack, pending, resp, loadedOk, call>>

-----------------------------------------------------------------------------
(* Bounds of the model and constants of the program *)

\* frames the JS engine grants a recursion before RangeError (engine-dependent)
StackLimit == 12
\* loads that may be suspended at `await axios.get(url)` at the same time
MaxPending == 2
\* largest page / limit a request asks for
MaxPage == 2
MaxLimit == 2
\* length of the chain of components of the "20 levels of $ref" schema
ChainLen == 20
\* number of operations of the large pagination example
ManyEndpoints == 120

\* extractSchemaStructure: `if (depth > 10)`
MaxDepth == 10
\* `|| 1` and `|| 50` of the page / limit parsing
DefaultPage == 1
DefaultLimit == 50

-----------------------------------------------------------------------------
(* JSON values and the JavaScript operations the code applies to them *)

Undef == [k |-> "undef"]
Null == [k |-> "null"]
NaN == [k |-> "nan"]
Str(segs) == [k |-> "str", s |-> segs]
S(x) == Str(<<x>>)
Num(n) == [k |-> "num", n |-> n]
Bool(b) == [k |-> "bool", b |-> b]
Obj(pairs) == [k |-> "obj", f |-> pairs]
Arr(elems) == [k |-> "arr", e |-> elems]
Throw(name) == [k |-> "throw", err |-> name]

IsThrow(v) == v.k = "throw"
IsNullish(v) == v.k \in {"undef", "null"}

\* ToBoolean: undefined, null, NaN, false, 0 and "" are falsy
Truthy(v) ==
  CASE v.k \in {"undef", "null", "nan"} -> FALSE
    [] v.k = "bool" -> v.b
    [] v.k = "num" -> v.n # 0
    [] v.k = "str" -> v.s # <<"">>
    [] OTHER -> TRUE

\* a || b
Or(a, b) == IF Truthy(a) THEN a ELSE b

\* v[key] on a value that is not null/undefined: own property or undefined
Get(v, key) ==
  IF v.k # "obj" THEN Undef
  ELSE LET hit == {i \in 1..Len(v.f) : v.f[i][1] = key}
       IN IF hit = {} THEN Undef ELSE v.f[CHOOSE i \in hit : TRUE][2]

\* v.key, which raises TypeError on null and undefined
GetStrict(v, key) ==
  IF IsThrow(v) THEN v
  ELSE IF IsNullish(v) THEN Throw("TypeError")
  ELSE Get(v, key)

\* v?.key / v?.[key]
GetOpt(v, key) ==
  IF IsThrow(v) THEN v
  ELSE IF IsNullish(v) THEN Undef
  ELSE Get(v, key)

\* Object.entries(v) and the keys of `for (k in v)`: the own enumerable
\* properties; an array's are its indices, a number/boolean has none
Entries(v) ==
  CASE v.k = "obj" -> v.f
    [] v.k = "arr" -> [i \in 1..Len(v.e) |-> <<ToString(i - 1), v.e[i]>>]
    [] OTHER -> <<>>

\* the first raised error among the values of a sequence, if any
AnyThrow(vals) == \E i \in 1..Len(vals) : vals[i].k = "throw"
FirstThrow(vals) ==
  vals[CHOOSE i \in 1..Len(vals) :
         IsThrow(vals[i]) /\ \A j \in 1..(i - 1) : ~IsThrow(vals[j])]

\* an object literal: evaluating a field that raises makes the whole raise
ObjOrThrow(pairs) ==
  IF \E i \in 1..Len(pairs) : pairs[i][2].k = "throw"
  THEN FirstThrow([i \in 1..Len(pairs) |-> pairs[i][2]])
  ELSE Obj(pairs)

ArrOrThrow(vals) == IF AnyThrow(vals) THEN FirstThrow(vals) ELSE Arr(vals)

\* str.split("/").pop()
LastSegment(str) == str.s[Len(str.s)]

-----------------------------------------------------------------------------
(* Example Synthesizer *)

\* `schema.example || dflt`
ExampleOr(schema, dflt) == Or(Get(schema, "example"), dflt)

\* the component the Synthesizer follows a $ref to: components[refName]
MockRefTarget(ref, components) == Get(components, LastSegment(ref))

RECURSIVE generateMockAt(_, _, _)
generateMockAt(schema, components, frames) ==
  IF frames > StackLimit THEN Throw("RangeError")
  ELSE IF ~Truthy(schema) THEN Null
  ELSE IF Truthy(Get(schema, "$ref")) THEN
    LET ref == Get(schema, "$ref")
    IN IF ref.k # "str" THEN Throw("TypeError")
       ELSE IF IsNullish(components) THEN Throw("TypeError")
       ELSE generateMockAt(MockRefTarget(ref, components), components, frames + 1)
  ELSE
    LET type == Get(schema, "type")
    IN CASE type = S("object") ->
              LET props == Entries(Or(Get(schema, "properties"), Obj(<<>>)))
                  vals == [i \in 1..Len(props) |->
                             generateMockAt(props[i][2], components, frames + 1)]
              IN IF AnyThrow(vals) THEN FirstThrow(vals)
                 ELSE Obj([i \in 1..Len(props) |-> <<props[i][1], vals[i]>>])
         [] type = S("array") ->
              LET item == generateMockAt(Get(schema, "items"), components, frames + 1)
              IN IF IsThrow(item) THEN item ELSE Arr(<<item, item>>)
         [] type = S("string") -> ExampleOr(schema, S("example string"))
         [] type \in {S("integer"), S("number")} -> ExampleOr(schema, Num(123))
         [] type = S("boolean") -> ExampleOr(schema, Bool(TRUE))
         [] OTHER -> S("mock value")

generateMockFromSchema(schema, components) == generateMockAt(schema, components, 0)

-----------------------------------------------------------------------------
(* Reference Resolver *)

resolveSchema(schema, components) ==
  IF ~Truthy(schema) THEN Null
  ELSE IF Truthy(Get(schema, "$ref")) THEN
    LET ref == Get(schema, "$ref")
    IN IF ref.k # "str" THEN Throw("TypeError")
       ELSE IF Len(ref.s) >= 2 /\ ref.s[1] = "#" /\ ref.s[2] = "components"
       THEN IF IsNullish(components) THEN Throw("TypeError")
            ELSE Or(Get(components, LastSegment(ref)), Null)
       ELSE schema
  ELSE schema

-----------------------------------------------------------------------------
(* Schema Normalizer *)

Sentinel == Obj(<< <<"type", S("object")>>, <<"description", S("Max depth reached")>> >>)

\* the depth guard one level late
DepthExceededLate(depth) == depth > MaxDepth + 1

\* `if (depth > 10) return {...}`
DepthExceeded(depth) == depth > MaxDepth

ScalarFields ==
  <<"type", "format", "description", "example", "default", "enum",
    "minimum", "maximum", "minLength", "maxLength", "pattern">>

\* value.map(f) for the composition keywords: only an array has .map
MapOrTypeError(value, results) ==
  IF value.k # "arr" THEN Throw("TypeError")
  ELSE IF AnyThrow(results) THEN FirstThrow(results)
  ELSE Arr(results)

RECURSIVE extractSchemaStructure(_, _, _)

\* `resolved.type === "object" || resolved.properties`
IsObjectType(resolved) ==
  Get(resolved, "type") = S("object") \/ Truthy(Get(resolved, "properties"))

\* `resolved.type === "array" || resolved.items`
IsArrayType(resolved) ==
  Get(resolved, "type") = S("array") \/ Truthy(Get(resolved, "items"))

\* Object.entries(resolved.properties || {})
Properties(resolved) == Entries(Or(Get(resolved, "properties"), Obj(<<>>)))

\* each property normalized one level deeper, in order
PropertyValues(resolved, components, depth) ==
  [i \in 1..Len(Properties(resolved)) |->
     extractSchemaStructure(Properties(resolved)[i][2], components, depth + 1)]

\* resolved[key].map(s => extractSchemaStructure(s, components, depth + 1))
Branches(resolved, key, components, depth) ==
  LET value == Get(resolved, key)
  IN MapOrTypeError(value,
       IF value.k = "arr"
       THEN [i \in 1..Len(value.e) |->
               extractSchemaStructure(value.e[i], components, depth + 1)]
       ELSE <<>>)

\* result.type: the node's own type, overwritten by "object" in the object
\* block and then by "array" in the array block
ResultType(resolved) ==
  IF IsArrayType(resolved) THEN S("array")
  ELSE IF IsObjectType(resolved) THEN S("object")
  ELSE Get(resolved, "type")

\* the fields the result literal starts with, in its order
ScalarPart(resolved) ==
  [i \in 1..Len(ScalarFields) |->
     <<ScalarFields[i],
       IF ScalarFields[i] = "type" THEN ResultType(resolved)
       ELSE Get(resolved, ScalarFields[i])>>]

\* the fields the object block adds
ObjectPart(resolved, propVals) ==
  IF ~IsObjectType(resolved) THEN <<>>
  ELSE << <<"properties",
            Obj([i \in DOMAIN propVals |-> <<Properties(resolved)[i][1], propVals[i]>>])>>,
          <<"required", Or(Get(resolved, "required"), Arr(<<>>))>> >>

\* the fields the array block adds
ArrayPart(resolved, items) ==
  IF ~IsArrayType(resolved) THEN <<>>
  ELSE << <<"items", items>>,
          <<"minItems", Get(resolved, "minItems")>>,
          <<"maxItems", Get(resolved, "maxItems")>> >>

\* the field a composition block adds
BranchPart(resolved, key, branches) ==
  IF Truthy(Get(resolved, key)) THEN << <<key, branches>> >> ELSE <<>>

\* the result object built from the parts, or the first exception a part
\* raised, in the order the body evaluates them
Assembled(resolved, propVals, items, allOf, anyOf, oneOf) ==
  IF IsObjectType(resolved) /\ (\E i \in DOMAIN propVals : propVals[i].k = "throw")
    THEN FirstThrow(propVals)
  ELSE IF IsArrayType(resolved) /\ items.k = "throw" THEN items
  ELSE IF Truthy(Get(resolved, "allOf")) /\ allOf.k = "throw" THEN allOf
  ELSE IF Truthy(Get(resolved, "anyOf")) /\ anyOf.k = "throw" THEN anyOf
  ELSE IF Truthy(Get(resolved, "oneOf")) /\ oneOf.k = "throw" THEN oneOf
  ELSE Obj(ScalarPart(resolved)
           \o ObjectPart(resolved, propVals)
           \o ArrayPart(resolved, items)
           \o BranchPart(resolved, "allOf", allOf)
           \o BranchPart(resolved, "anyOf", anyOf)
           \o BranchPart(resolved, "oneOf", oneOf))

\* the body below the depth guard, on the resolved node: the exception of
\* resolveSchema, null for a falsy node, else the assembled result
StructureOf(resolved, components, depth) ==
  IF IsThrow(resolved) \/ ~Truthy(resolved)
  THEN (IF IsThrow(resolved) THEN resolved ELSE Null)
  ELSE Assembled(resolved,
                 PropertyValues(resolved, components, depth),
                 extractSchemaStructure(Get(resolved, "items"), components, depth + 1),
                 Branches(resolved, "allOf", components, depth),
                 Branches(resolved, "anyOf", components, depth),
                 Branches(resolved, "oneOf", components, depth))

extractSchemaStructure(schema, components, depth) ==
  IF DepthExceeded(depth) \/ ~Truthy(schema)
  THEN (IF DepthExceeded(depth) THEN Sentinel ELSE Null)
  ELSE StructureOf(resolveSchema(schema, components), components, depth)

-----------------------------------------------------------------------------
(* Endpoint Extractor *)

\* a path template as it appears as a string value in an endpoint record
PathStr(tpl) == [k |-> "path", p |-> tpl]

HttpMethodList == <<"get", "post", "put", "patch", "delete", "options", "head">>

\* method.toUpperCase()
ToUpperCase(method) ==
  CASE method = "get" -> "GET"
    [] method = "post" -> "POST"
    [] method = "put" -> "PUT"
    [] method = "patch" -> "PATCH"
    [] method = "delete" -> "DELETE"
    [] method = "options" -> "OPTIONS"
    [] method = "head" -> "HEAD"
    [] OTHER -> method

\* `resolvedSchema || schema` after `resolvedSchema = resolveSchema(schema, schemas)`
ResolvedOrRaw(schema, schemas) ==
  LET resolvedSchema == resolveSchema(schema, schemas)
  IN IF IsThrow(resolvedSchema) THEN resolvedSchema ELSE Or(resolvedSchema, schema)

\* extractSchemaStructure(resolvedSchema || schema, schemas), unless resolving raised
NormalizedTarget(target, schemas) ==
  IF IsThrow(target) THEN target ELSE extractSchemaStructure(target, schemas, 0)

\* the fields of paramInfo, given param.schema and its normalized form
ParamFields(param, pschema, full) ==
  << <<"name", GetStrict(param, "name")>>,
     <<"in", GetStrict(param, "in")>>,
     <<"required", Or(GetStrict(param, "required"), Bool(FALSE))>>,
     <<"description", Or(GetStrict(param, "description"), S(""))>>,
     <<"deprecated", Or(GetStrict(param, "deprecated"), Bool(FALSE))>> >>
  \o (IF IsThrow(pschema) THEN <<>>
      ELSE IF Truthy(pschema) THEN
        << <<"schema", full>>,
           <<"type", Or(Or(GetOpt(full, "type"), GetOpt(pschema, "type")), S("string"))>>,
           <<"format", Or(GetOpt(full, "format"), GetOpt(pschema, "format"))>>,
           <<"example", Or(Or(Get(param, "example"), GetOpt(full, "example")),
                           GetOpt(pschema, "example"))>>,
           <<"default", Or(GetOpt(full, "default"), GetOpt(pschema, "default"))>>,
           <<"enum", Or(GetOpt(full, "enum"), GetOpt(pschema, "enum"))>>,
           <<"minimum", GetOpt(full, "minimum")>>,
           <<"maximum", GetOpt(full, "maximum")>>,
           <<"minLength", GetOpt(full, "minLength")>>,
           <<"maxLength", GetOpt(full, "maxLength")>>,
           <<"pattern", GetOpt(full, "pattern")>> >>
      ELSE << <<"type", S("string")>> >>)
  \o (IF ~IsThrow(pschema) /\ Truthy(Get(param, "style"))
      THEN << <<"style", Get(param, "style")>> >> ELSE <<>>)
  \o (IF ~IsThrow(pschema) /\ Get(param, "explode") # Undef
      THEN << <<"explode", Get(param, "explode")>> >> ELSE <<>>)

\* one element of operation.parameters
ParamInfo(param, schemas) ==
  ObjOrThrow(ParamFields(param, GetStrict(param, "schema"),
                         NormalizedTarget(ResolvedOrRaw(GetStrict(param, "schema"), schemas),
                                          schemas)))

\* the paramInfo of every declared parameter, in order
ParamInfos(operation, schemas) ==
  LET declared == Get(operation, "parameters")
  IN IF Truthy(declared) /\ declared.k = "arr"
     THEN [i \in 1..Len(declared.e) |-> ParamInfo(declared.e[i], schemas)]
     ELSE <<>>

\* the "all" list and the four location buckets
Buckets(all) ==
  LET In(loc) == LET AtLoc(info) == Get(info, "in") = S(loc)
                 IN Arr(SelectSeq(all, AtLoc))
  IN IF AnyThrow(all) THEN FirstThrow(all)
     ELSE Obj(<< <<"path", In("path")>>, <<"query", In("query")>>,
                 <<"header", In("header")>>, <<"cookie", In("cookie")>>,
                 <<"all", Arr(all)>> >>)

\* endpoint.parameters
Parameters(operation, schemas) == Buckets(ParamInfos(operation, schemas))

\* endpoint.requestBody.contentTypes[contentType] when the media type has a schema
SchemaContent(media, target, schemas) ==
  IF IsThrow(target) THEN target
  ELSE ObjOrThrow(<< <<"schema", extractSchemaStructure(target, schemas, 0)>>,
                     <<"example", GetOpt(media, "example")>>,
                     <<"examples", GetOpt(media, "examples")>>,
                     <<"generatedExample",
                       IF Truthy(GetOpt(media, "example")) THEN Null
                       ELSE generateMockFromSchema(target, schemas)>> >>)

\* endpoint.requestBody.contentTypes[contentType]
RequestContent(media, schemas) ==
  IF Truthy(GetOpt(media, "schema"))
  THEN SchemaContent(media, ResolvedOrRaw(GetOpt(media, "schema"), schemas), schemas)
  ELSE Obj(<< <<"schema", Null>>,
              <<"example", GetOpt(media, "example")>>,
              <<"examples", GetOpt(media, "examples")>>,
              <<"generatedExample", Null>> >>)

\* requestBodyContent[contentType]?.example || generateMockFromSchema(...)
ExampleOrGenerated(media, target, schemas) ==
  IF IsThrow(target) THEN target
  ELSE IF Truthy(GetOpt(media, "example")) THEN GetOpt(media, "example")
  ELSE Or(generateMockFromSchema(target, schemas), Null)

\* the primary example: set at the "application/json" content type, when it
\* declares a schema, to its literal example or else its generated one
PrimaryExample(content, schemas) ==
  LET media == Get(content, "application/json")
  IN IF Truthy(GetOpt(media, "schema"))
     THEN ExampleOrGenerated(media, ResolvedOrRaw(GetOpt(media, "schema"), schemas), schemas)
     ELSE Null

\* endpoint.requestBody.contentTypes
ContentTypes(content, schemas) ==
  LET types == Entries(content)
  IN ObjOrThrow([i \in 1..Len(types) |->
                   <<types[i][1], RequestContent(types[i][2], schemas)>>])

RequestBody(operation, schemas) ==
  LET body == Get(operation, "requestBody")
      content == Or(Get(body, "content"), Obj(<<>>))
  IN IF ~Truthy(body) THEN Null
     ELSE ObjOrThrow(
            << <<"required", Or(Get(body, "required"), Bool(FALSE))>>,
               <<"description", Or(Get(body, "description"), S(""))>>,
               <<"contentTypes", ContentTypes(content, schemas)>>,
               <<"example", PrimaryExample(content, schemas)>> >>)

\* endpoint.responses[statusCode].content[contentType] when it has a schema
SchemaResponse(content, target, schemas) ==
  IF IsThrow(target) THEN target
  ELSE ObjOrThrow(<< <<"schema", extractSchemaStructure(target, schemas, 0)>>,
                     <<"example", Get(content, "example")>>,
                     <<"examples", Get(content, "examples")>> >>)

\* endpoint.responses[statusCode].content[contentType]
ResponseContent(content, schemas) ==
  LET responseSchema == GetStrict(content, "schema")
  IN IF IsThrow(responseSchema) THEN responseSchema
     ELSE IF Truthy(responseSchema)
       THEN SchemaResponse(content, ResolvedOrRaw(responseSchema, schemas), schemas)
     ELSE Obj(<< <<"schema", Null>>,
                 <<"example", Get(content, "example")>>,
                 <<"examples", Get(content, "examples")>> >>)

\* endpoint.responses[statusCode].headers[headerName]
ResponseHeader(header, schemas) ==
  LET description == GetStrict(header, "description")
  IN IF IsThrow(description) THEN description
     ELSE ObjOrThrow(<< <<"description", Or(description, S(""))>>,
                        <<"schema",
                          IF Truthy(Get(header, "schema"))
                          THEN extractSchemaStructure(Get(header, "schema"), schemas, 0)
                          ELSE Null>>,
                        <<"required", Or(Get(header, "required"), Bool(FALSE))>> >>)

\* endpoint.responses[statusCode].content
ResponseContents(content, schemas) ==
  LET contents == Entries(content)
  IN ObjOrThrow([i \in 1..Len(contents) |->
                   <<contents[i][1], ResponseContent(contents[i][2], schemas)>>])

\* endpoint.responses[statusCode].headers
ResponseHeaders(headers, schemas) ==
  LET each == Entries(headers)
  IN ObjOrThrow([i \in 1..Len(each) |->
                   <<each[i][1], ResponseHeader(each[i][2], schemas)>>])

\* endpoint.responses[statusCode]
ResponseInfo(response, schemas) ==
  LET description == GetStrict(response, "description")
  IN IF IsThrow(description) THEN description
     ELSE ObjOrThrow(
            << <<"description", Or(description, S(""))>>,
               <<"content",
                 IF Truthy(Get(response, "content"))
                 THEN ResponseContents(Get(response, "content"), schemas)
                 ELSE Obj(<<>>)>> >>
            \o (IF Truthy(Get(response, "headers"))
                THEN << <<"headers", ResponseHeaders(Get(response, "headers"), schemas)>> >>
                ELSE <<>>))

Responses(operation, schemas) ==
  LET each == Entries(Get(operation, "responses"))
  IN IF ~Truthy(Get(operation, "responses")) THEN Obj(<<>>)
     ELSE ObjOrThrow([i \in 1..Len(each) |->
                        <<each[i][1], ResponseInfo(each[i][2], schemas)>>])

\* Object.keys(v) as a JSON array of strings
KeysOf(v) == LET es == Entries(v) IN Arr([i \in 1..Len(es) |-> S(es[i][1])])

\* endpoint.summary, computed from the parts already built
Summary(parameters, requestBody, responses) ==
  LET Count(loc) == Num(Len(Get(parameters, loc).e))
      all == Get(parameters, "all").e
      Required(info) == Truthy(Get(info, "required"))
      required == SelectSeq(all, Required)
  IN Obj(<< <<"hasParameters", Bool(Len(all) > 0)>>,
            <<"hasRequestBody", Bool(requestBody # Null)>>,
            <<"parameterCount",
              Obj(<< <<"path", Count("path")>>, <<"query", Count("query")>>,
                     <<"header", Count("header")>>, <<"cookie", Count("cookie")>>,
                     <<"total", Num(Len(all))>> >>)>>,
            <<"requiredParameters",
              Arr([i \in 1..Len(required) |->
                     Obj(<< <<"name", Get(required[i], "name")>>,
                            <<"in", Get(required[i], "in")>>,
                            <<"type", Get(required[i], "type")>> >>)])>>,
            <<"requestBodyRequired", Or(GetOpt(requestBody, "required"), Bool(FALSE))>>,
            <<"requestBodyContentTypes",
              IF Truthy(requestBody) THEN KeysOf(Get(requestBody, "contentTypes"))
              ELSE Arr(<<>>)>>,
            <<"responseStatusCodes", KeysOf(responses)>> >>)

\* the endpoint record, given its three extracted parts
EndpointRecord(path, method, operation, doc, parameters, requestBody, responses) ==
  CASE IsThrow(parameters) -> parameters
    [] IsThrow(requestBody) -> requestBody
    [] IsThrow(responses) -> responses
    [] OTHER ->
       Obj(<< <<"path", PathStr(path)>>,
              <<"method", S(ToUpperCase(method))>>,
              <<"summary", Summary(parameters, requestBody, responses)>>,
              <<"description", Or(Get(operation, "description"), S(""))>>,
              <<"operationId", Or(Get(operation, "operationId"), S(""))>>,
              <<"tags", Or(Get(operation, "tags"), Arr(<<>>))>>,
              <<"parameters", parameters>>,
              <<"requestBody", requestBody>>,
              <<"responses", responses>>,
              <<"security", Or(Or(Get(operation, "security"), Get(doc, "security")),
                               Arr(<<>>))>> >>)

\* the endpoint record of one operation
Endpoint(path, method, operation, doc, schemas) ==
  EndpointRecord(path, method, operation, doc,
                 Parameters(operation, schemas),
                 RequestBody(operation, schemas),
                 Responses(operation, schemas))

\* the endpoints of one path item, in the order of the fixed method list;
\* `pathItem[method]` raises on a null path item
PathEndpoints(path, pathItem, doc, schemas) ==
  IF IsNullish(pathItem) THEN <<Throw("TypeError")>>
  ELSE LET Present(method) == Truthy(Get(pathItem, method))
           present == SelectSeq(HttpMethodList, Present)
       IN [i \in 1..Len(present) |->
             Endpoint(path, present[i], Get(pathItem, present[i]), doc, schemas)]

RECURSIVE Flatten(_)
Flatten(lists) ==
  IF lists = <<>> THEN <<>> ELSE Head(lists) \o Flatten(Tail(lists))

\* returns the array of endpoint records, or Throw
extractEndpointDetails(doc) ==
  IF IsNullish(doc) THEN Throw("TypeError")
  ELSE
    LET paths == Or(Get(doc, "paths"), Obj(<<>>))
        components == Or(Get(doc, "components"), Obj(<<>>))
        schemas == Or(Get(components, "schemas"), Obj(<<>>))
        items == Entries(paths)
        all == Flatten([i \in 1..Len(items) |->
                          PathEndpoints(items[i][1], items[i][2], doc, schemas)])
    IN ArrOrThrow(all)

-----------------------------------------------------------------------------
(* Inputs: schema nodes and component tables *)

Ref(segs) == Obj(<< <<"$ref", Str(segs)>> >>)
ComponentRef(name) == Ref(<<"#", "components", "schemas", name>>)
Typed(type) == Obj(<< <<"type", S(type)>> >>)
TypedExample(type, example) == Obj(<< <<"type", S(type)>>, <<"example", example>> >>)
ObjectOf(props) == Obj(<< <<"type", S("object")>>, <<"properties", Obj(props)>> >>)
ArrayOf(items) == Obj(<< <<"type", S("array")>>, <<"items", items>> >>)

PetSchema ==
  ObjectOf(<< <<"id", Typed("integer")>>,
              <<"name", TypedExample("string", S("alice"))>>,
              <<"tags", ArrayOf(Typed("string"))>> >>)

\* Foo refers to itself directly, Node through a property, List through items
MainTable ==
  Obj(<< <<"Pet", PetSchema>>,
         <<"Foo", ComponentRef("Foo")>>,
         <<"Node", ObjectOf(<< <<"next", ComponentRef("Node")>> >>)>>,
         <<"List", ArrayOf(ComponentRef("List"))>>,
         <<"Flag", TypedExample("boolean", Bool(FALSE))>>,
         <<"Alias", ComponentRef("Pet")>> >>)

EmptyTable == Obj(<<>>)

\* L1 -> L2 -> ... -> L<ChainLen> -> L1, each through a property;
\* A1 -> A2 -> ... -> A<ChainLen> -> A1, each a bare $ref
ChainName(prefix, i) == prefix \o ToString(i)
NextInChain(i) == IF i = ChainLen THEN 1 ELSE i + 1
ChainTable ==
  Obj([i \in 1..ChainLen |->
         <<ChainName("L", i),
           ObjectOf(<< <<"next", ComponentRef(ChainName("L", NextInChain(i)))>> >>)>>]
      \o
      [i \in 1..ChainLen |->
         <<ChainName("A", i), ComponentRef(ChainName("A", NextInChain(i)))>>])

Tables == <<MainTable, EmptyTable, ChainTable>>

Nodes ==
  << Undef, Null,
     Typed("string"), TypedExample("string", S("alice")), TypedExample("string", S("")),
     Typed("integer"), TypedExample("integer", Num(0)), TypedExample("integer", Num(7)),
     Typed("number"), TypedExample("number", Num(0)), TypedExample("number", Num(7)),
     Typed("boolean"), TypedExample("boolean", Bool(FALSE)),
     TypedExample("boolean", Bool(TRUE)),
     ArrayOf(Typed("string")), Typed("array"), Typed("object"), PetSchema,
     Obj(<<>>), Obj(<< <<"properties", Obj(<< <<"a", Typed("string")>> >>)>> >>),
     ComponentRef("Pet"), ComponentRef("Missing"), ComponentRef("Foo"),
     ComponentRef("Node"), ComponentRef("List"), ComponentRef("Flag"),
     ComponentRef("Alias"), ComponentRef("L1"), ComponentRef("A1"),
     Ref(<<"#", "definitions", "Pet">>), Ref(<<"other.json#", "Pet">>),
     Ref(<<"#", "definitions", "Foo">>),
     Obj(<< <<"$ref", Num(5)>> >>),
     S("abc"), Num(7), Arr(<<Typed("string")>>),
     Obj(<< <<"allOf", Arr(<<Typed("string"), ComponentRef("Pet")>>)>> >>),
     Obj(<< <<"allOf", S("x")>> >>),
     Obj(<< <<"type", S("object")>>, <<"oneOf", Obj(<<>>)>> >>),
     ObjectOf(<< <<"self", ComponentRef("Node")>>, <<"flag", ComponentRef("Flag")>> >>) >>

-----------------------------------------------------------------------------
(* Paths, routes and the router *)

\* A path is the sequence of its segments.  A segment of a path template is
\* literal, "{name}" (brace) or ":name" (colon); a request URL has literal
\* segments only.
Lit(n) == [t |-> "lit", n |-> n]
Brace(n) == [t |-> "brace", n |-> n]
Colon(n) == [t |-> "colon", n |-> n]

\* path.replace(/{/g, ":").replace(/}/g, "")
ExprSegment(seg) == IF seg.t = "brace" THEN Colon(seg.n) ELSE seg
ExprPath(path) == [i \in 1..Len(path) |-> ExprSegment(path[i])]

\* whether a registered route path matches a request URL: a ":name" segment
\* matches any one segment, a literal segment only itself
SegmentMatches(seg, part) == seg.t = "colon" \/ (seg.t = "lit" /\ seg.n = part)
PathMatches(routePath, url) ==
  /\ Len(routePath) = Len(url)
  /\ \A i \in 1..Len(url) : SegmentMatches(routePath[i], url[i])

LoadSwaggerPath == <<Lit("load-swagger")>>
EndpointsPath == <<Lit("endpoints")>>

\* a layer of app._router.stack that has a route.  A mock layer's handler
\* closes over the template `path`, the `method` and the `components` of the
\* setupMocks call that registered it.
Layer(kind, method, routePath, tpl, components) ==
  [kind |-> kind, method |-> method, path |-> routePath, tpl |-> tpl,
   components |-> components]

BuiltinLayers ==
  << Layer("load", "post", LoadSwaggerPath, LoadSwaggerPath, Undef),
     Layer("endpoints", "get", EndpointsPath, EndpointsPath, Undef) >>

\* the router hands a request to the first layer, in registration order,
\* whose route path matches and whose route handles the method; 0 if none
Dispatch(routerStack, method, url) ==
  LET hits == {i \in 1..Len(routerStack) :
                 /\ routerStack[i].method = method
                 /\ PathMatches(routerStack[i].path, url)}
  IN IF hits = {} THEN 0 ELSE CHOOSE i \in hits : \A j \in hits : i <= j

\* clearMockRoutes: every layer whose route path is in mockRoutes is dropped
ClearedStack(routerStack, routes) ==
  LET Kept(layer) == \A i \in 1..Len(routes) : layer.path # routes[i]
  IN SelectSeq(routerStack, Kept)

\* the verbs for which the Express app has a route-registering function;
\* app[key] of any other path-item key of the input documents is undefined
ExpressVerbs == {"get", "post", "put", "patch", "delete", "options", "head"}

\* the (path, method) pairs the two nested for-in loops visit, in order
Operations(paths) ==
  LET items == Entries(paths)
  IN Flatten([i \in 1..Len(items) |->
                LET keys == Entries(items[i][2])
                IN [j \in 1..Len(keys) |-> <<items[i][1], keys[j][1]>>]])

\* how many registrations the loop of setupMocks completes: all of them, or
\* those before the first key for which app[method] is not a function
Registered(ops) ==
  LET bad == {i \in 1..Len(ops) : ops[i][2] \notin ExpressVerbs}
  IN IF bad = {} THEN Len(ops) ELSE (CHOOSE i \in bad : \A j \in bad : i <= j) - 1

\* setupMocks on the document `data` just assigned to swaggerData: the new
\* mockRoutes, the new router stack, and whether it raised
setupMocks(data, routes, routerStack) ==
  IF IsNullish(data) THEN [routes |-> routes, stack |-> routerStack, threw |-> TRUE]
  ELSE IF ~Truthy(Get(data, "paths"))
    THEN [routes |-> routes, stack |-> routerStack, threw |-> FALSE]
  ELSE
    LET components == Or(GetOpt(Get(data, "components"), "schemas"), Obj(<<>>))
        ops == Operations(Get(data, "paths"))
        done == Registered(ops)
        threw == done < Len(ops)
        pushed == IF threw THEN done + 1 ELSE done
    IN [routes |-> [i \in 1..pushed |-> ExprPath(ops[i][1])],
        stack |-> ClearedStack(routerStack, routes)
                    \o [i \in 1..done |->
                          Layer("mock", ops[i][2], ExprPath(ops[i][1]), ops[i][1],
                                components)],
        threw |-> threw]

\* `Mocked ${method.toUpperCase()} ${path}`
MockedMessage(method, path) ==
  [k |-> "mocked", method |-> ToUpperCase(method), path |-> path]

\* res.json(...) of a mock handler, given the operation's 200 JSON schema
MockBody(layer, schema) ==
  IF IsThrow(schema) THEN schema
  ELSE IF Truthy(schema) THEN generateMockFromSchema(schema, layer.components)
  ELSE Obj(<< <<"message", MockedMessage(layer.method, layer.tpl)>> >>)

\* the handler of a mock layer, run against the current swaggerData: the JSON
\* body it sends, or Throw
MockHandler(layer, data) ==
  MockBody(layer,
    GetOpt(GetOpt(GetOpt(GetOpt(
      GetStrict(GetStrict(GetStrict(GetStrict(data, "paths"), layer.tpl), layer.method),
                "responses"),
      "200"), "content"), "application/json"), "schema"))

-----------------------------------------------------------------------------
(* Pagination *)

Min(a, b) == IF a < b THEN a ELSE b
Max(a, b) == IF a > b THEN a ELSE b

\* the integers a page or limit parameter is drawn from
IntRange == (0 - MaxPage - MaxLimit)..(MaxPage + MaxLimit)

\* parseInt(v): the integer a numeric string denotes, a number itself, else NaN
ParseInt(v) ==
  CASE v.k = "num" -> v
    [] v.k = "str" /\ Len(v.s) = 1 /\ (\E n \in IntRange : ToString(n) = v.s[1]) ->
         Num(CHOOSE n \in IntRange : ToString(n) = v.s[1])
    [] OTHER -> NaN

\* Math.ceil(total / limit) for total >= 0 and limit # 0
CeilDiv(total, limit) ==
  IF limit > 0 THEN (total + limit - 1) \div limit
  ELSE 0 - (total \div (0 - limit))

\* Array.prototype.slice(start, end)
SliceIndex(i, len) == IF i < 0 THEN Max(len + i, 0) ELSE Min(i, len)
Slice(seq, start, end) ==
  LET from == SliceIndex(start, Len(seq))
      to == SliceIndex(end, Len(seq))
  IN IF from >= to THEN <<>> ELSE SubSeq(seq, from + 1, to)

StartIndex(page, limit) == (page - 1) * limit
\* the end index one short
EndIndexShort(page, limit) == StartIndex(page, limit) + limit - 1
EndIndex(page, limit) == StartIndex(page, limit) + limit

\* the pagination object and the page of endpoints both handlers compute
Paginate(allEndpoints, page, limit) ==
  LET totalEndpoints == Len(allEndpoints.e)
      totalPages == CeilDiv(totalEndpoints, limit)
  IN [pagination |->
        Obj(<< <<"page", Num(page)>>,
               <<"limit", Num(limit)>>,
               <<"total", Num(totalEndpoints)>>,
               <<"totalPages", Num(totalPages)>>,
               <<"hasNextPage", Bool(page < totalPages)>>,
               <<"hasPreviousPage", Bool(page > 1)>> >>),
      endpoints |-> Arr(Slice(allEndpoints.e, StartIndex(page, limit),
                              EndIndex(page, limit)))]

-----------------------------------------------------------------------------
(* Inputs: the documents a fetch can return, and the requests *)

JsonResponse(status, schema) ==
  <<status, Obj(<< <<"description", S("ok")>>,
                   <<"content",
                     Obj(<< <<"application/json", Obj(<< <<"schema", schema>> >>)>> >>)>> >>)>>

\* an operation that declares a 200 JSON response schema
OperationWith(schema) == Obj(<< <<"responses", Obj(<<JsonResponse("200", schema)>>)>> >>)
\* an operation without one
PlainOperation(tags) ==
  Obj(<< <<"tags", Arr(tags)>>,
         <<"responses", Obj(<< <<"204", Obj(<< <<"description", S("done")>> >>)>> >>)>> >>)

Document(paths, schemas) ==
  Obj(<< <<"info", Obj(<< <<"title", S("api")>> >>)>>,
         <<"paths", Obj(paths)>>,
         <<"components", Obj(<< <<"schemas", schemas>> >>)>> >>)

\* /pets/{id} is declared before /pets/mine, and both match GET /pets/mine
PetsDoc ==
  Document(<< << <<Lit("pets"), Brace("id")>>,
                 Obj(<< <<"get", OperationWith(ComponentRef("Pet"))>>,
                        <<"post", PlainOperation(<<S("admin")>>)>> >>) >>,
              << <<Lit("pets"), Lit("mine")>>,
                 Obj(<< <<"get", PlainOperation(<<S("admin")>>)>> >>) >> >>,
           MainTable)

UsersDoc ==
  Document(<< << <<Lit("users")>>,
                 Obj(<< <<"get", OperationWith(ArrayOf(Typed("string")))>>,
                        <<"post", PlainOperation(<<>>)>>,
                        <<"put", PlainOperation(<<S("admin")>>)>> >>) >> >>,
           EmptyTable)

\* a document without `paths`
NoPathsDoc == Obj(<< <<"info", Obj(<< <<"title", S("empty")>> >>)>> >>)

\* `paths` present and empty
EmptyPathsDoc == Document(<<>>, EmptyTable)

\* a path item with path-level `parameters`, a key that is no HTTP method
ParametersDoc ==
  Document(<< << <<Lit("a")>>,
                 Obj(<< <<"get", PlainOperation(<<>>)>>,
                        <<"parameters", Arr(<<>>)>>,
                        <<"post", PlainOperation(<<>>)>> >>) >> >>,
           EmptyTable)

\* a path item that is null
NullItemDoc ==
  Document(<< << <<Lit("b")>>, Obj(<< <<"post", PlainOperation(<<>>)>> >>) >>,
              << <<Lit("c")>>, Null >> >>,
           EmptyTable)

\* an operation whose response schema refers to itself
CyclicDoc ==
  Document(<< << <<Lit("nodes")>>,
                 Obj(<< <<"get", OperationWith(ComponentRef("Node"))>> >>) >> >>,
           MainTable)

\* a document that declares the paths of the two built-in routes
BuiltinPathsDoc ==
  Document(<< << EndpointsPath, Obj(<< <<"get", PlainOperation(<<>>)>> >>) >>,
              << LoadSwaggerPath, Obj(<< <<"post", PlainOperation(<<>>)>> >>) >> >>,
           EmptyTable)

\* what `result.data` of a fetch that did not raise can be; Null is the body `null`
Documents ==
  << PetsDoc, UsersDoc, NoPathsDoc, EmptyPathsDoc, ParametersDoc, NullItemDoc,
     CyclicDoc, BuiltinPathsDoc, Null >>

\* the outcomes of `await axios.get(url)`: it raises, or it returns a document
FetchOutcomes ==
  {[ok |-> FALSE, doc |-> 0]} \cup {[ok |-> TRUE, doc |-> i] : i \in 1..Len(Documents)}

Urls ==
  { <<"pets", "42">>, <<"pets", "mine">>, <<"users">>, <<"a">>, <<"b">>,
    <<"nodes">>, <<"endpoints">>, <<"load-swagger">> }
RequestMethods == {"get", "post"}

\* raw values of a `page` or `limit` parameter: absent, or the text of a number
RawNumbers(max) == {Undef} \cup {S(ToString(n)) : n \in 0..max}
RawMethods == {Undef, S("post")}
RawTags == {Undef, S("admin")}

-----------------------------------------------------------------------------
(* The server *)

Response(handler, status, body, req) ==
  [h |-> handler, status |-> status, body |-> body, req |-> req]

\* the last application of a function of the schema engine: the function,
\* its inputs (by their place in Nodes / ExtractDocs and Tables) and its result
NoCall == [fn |-> "none", node |-> 0, table |-> 0, depth |-> 0, out |-> Undef]

Init ==
  /\ swaggerData = Obj(<<>>)
  /\ mockRoutes = <<>>
  /\ stack = BuiltinLayers
  /\ pending = <<>>
  /\ resp = Response("none", 0, Undef, Undef)
  /\ loadedOk = FALSE
  /\ call = NoCall

\* the layer the router hands the request to, or "none"
Routed(method, url) ==
  LET i == Dispatch(stack, method, url)
  IN IF i = 0 THEN "none" ELSE stack[i].kind

\* `parseInt(a) || parseInt(b) || dflt`
ParsedOr(a, b, dflt) == Or(Or(ParseInt(a), ParseInt(b)), Num(dflt)).n

\* POST /load-swagger without `url`: 400
LoadSwaggerNoUrl ==
  /\ Routed("post", <<"load-swagger">>) = "load"
  /\ resp' = Response("load", 400, Obj(<< <<"message", S("Swagger URL is required")>> >>),
                      Undef)
  /\ UNCHANGED <<swaggerData, mockRoutes, stack, pending, loadedOk, call>>

\* POST /load-swagger with `url`, up to `await axios.get(url)`
LoadSwaggerFetch(queryPage, bodyPage, queryLimit, bodyLimit) ==
  /\ Routed("post", <<"load-swagger">>) = "load"
  /\ Len(pending) < MaxPending
  /\ pending' = Append(pending, [page |-> ParsedOr(queryPage, bodyPage, DefaultPage),
                                 limit |-> ParsedOr(queryLimit, bodyLimit, DefaultLimit)])
  /\ resp' = Response("load", 0, Undef, Undef)
  /\ UNCHANGED <<swaggerData, mockRoutes, stack, loadedOk, call>>

\* the body of a successful load
LoadBody(data, page) ==
  Obj(<< <<"message", S("Mock API created successfully")>>,
         <<"info",
           Obj(<< <<"title", Or(GetOpt(Get(data, "info"), "title"), S(""))>>,
                  <<"description", Or(GetOpt(Get(data, "info"), "description"), S(""))>>,
                  <<"version", Or(GetOpt(Get(data, "info"), "version"), S(""))>> >>)>>,
         <<"pagination", page.pagination>>,
         <<"endpoints", page.endpoints>>,
         <<"securitySchemes",
           Or(GetOpt(Get(data, "components"), "securitySchemes"), Obj(<<>>))>>,
         <<"servers", Or(Get(data, "servers"), Arr(<<>>))>> >>)

LoadFailed(req) ==
  Response("load", 500, Obj(<< <<"message", S("Failed to load Swagger")>> >>), req)

\* the handler from `swaggerData = result.data` on: the assignment, setupMocks
\* (its outcome `mocks`), extractEndpointDetails (its outcome `allEndpoints`)
\* and the answer
LoadFetched(data, req, mocks, allEndpoints) ==
  /\ swaggerData' = data
  /\ mockRoutes' = mocks.routes
  /\ stack' = mocks.stack
  /\ loadedOk' = (loadedOk \/ (~mocks.threw /\ ~IsThrow(allEndpoints)))
  /\ resp' = IF ~mocks.threw /\ ~IsThrow(allEndpoints)
             THEN Response("load", 200,
                           LoadBody(data, Paginate(allEndpoints, req.page, req.limit)), req)
             ELSE LoadFailed(req)

\* the rest of the POST /load-swagger handler, once the fetch has settled
LoadSwaggerResume(i, outcome) ==
  /\ i \in 1..Len(pending)
  /\ pending' = [j \in 1..(Len(pending) - 1) |-> IF j < i THEN pending[j] ELSE pending[j + 1]]
  /\ call' = call
  /\ IF ~outcome.ok
     THEN /\ resp' = LoadFailed(pending[i])
          /\ UNCHANGED <<swaggerData, mockRoutes, stack, loadedOk>>
     ELSE LoadFetched(Documents[outcome.doc], pending[i],
                      setupMocks(Documents[outcome.doc], mockRoutes, stack),
                      extractEndpointDetails(Documents[outcome.doc]))

\* ep.tags.includes(tag)
Includes(tags, tag) ==
  CASE tags.k = "arr" -> \E i \in 1..Len(tags.e) : tags.e[i] = tag
    [] tags.k = "str" -> tags = tag
    [] OTHER -> FALSE
HasIncludes(tags) == tags.k \in {"arr", "str"}

\* the two filters of GET /endpoints; Throw when a tags value has no .includes
Filtered(allEndpoints, method, tag) ==
  LET ByMethod(ep) == ~Truthy(method) \/ Get(ep, "method") = S(ToUpperCase(method.s[1]))
      byMethod == SelectSeq(allEndpoints.e, ByMethod)
      ByTag(ep) == Includes(Get(ep, "tags"), tag)
  IN IF ~Truthy(tag) THEN Arr(byMethod)
     ELSE IF \E i \in 1..Len(byMethod) : ~HasIncludes(Get(byMethod[i], "tags"))
       THEN Throw("TypeError")
     ELSE Arr(SelectSeq(byMethod, ByTag))

NotLoadedBody ==
  Obj(<< <<"message", S("No Swagger data loaded. Please call /load-swagger first.")>> >>)

\* the filters applied to what the extractor returned
FilteredOrRaised(allEndpoints, method, tag) ==
  IF IsThrow(allEndpoints) THEN allEndpoints ELSE Filtered(allEndpoints, method, tag)

\* the answer of GET /endpoints past the 404 guard
EndpointsAnswer(filtered, req) ==
  IF IsThrow(filtered) THEN Response("endpoints", 500, filtered, req)
  ELSE Response("endpoints", 200,
                Obj(<< <<"pagination", Paginate(filtered, req.page, req.limit).pagination>>,
                       <<"endpoints", Paginate(filtered, req.page, req.limit).endpoints>> >>),
                req)

\* the request GET /endpoints as parsed by the handler
EndpointsRequest(queryPage, queryLimit, method, tag) ==
  [page |-> ParsedOr(queryPage, Undef, DefaultPage),
   limit |-> ParsedOr(queryLimit, Undef, DefaultLimit),
   method |-> method, tag |-> tag]

\* GET /endpoints
GetEndpoints(queryPage, queryLimit, method, tag) ==
  /\ Routed("get", <<"endpoints">>) = "endpoints"
  /\ resp' = IF ~Truthy(swaggerData) \/ ~Truthy(Get(swaggerData, "paths"))
             THEN Response("endpoints", 404, NotLoadedBody,
                           EndpointsRequest(queryPage, queryLimit, method, tag))
             ELSE EndpointsAnswer(
                    FilteredOrRaised(extractEndpointDetails(swaggerData), method, tag),
                    EndpointsRequest(queryPage, queryLimit, method, tag))
  /\ UNCHANGED <<swaggerData, mockRoutes, stack, pending, loadedOk, call>>

\* the answer of a mock route whose handler sent `body` or raised
MockAnswer(body, req) ==
  IF IsThrow(body) THEN Response("mock", 500, body, req)
  ELSE Response("mock", 200, body, req)

\* a request the router hands to a mock route
MockRequest(method, url) ==
  /\ Routed(method, url) = "mock"
  /\ resp' = MockAnswer(MockHandler(stack[Dispatch(stack, method, url)], swaggerData),
                        [method |-> method, url |-> url,
                         layer |-> Dispatch(stack, method, url)])
  /\ UNCHANGED <<swaggerData, mockRoutes, stack, pending, loadedOk, call>>

\* a request no route matches: Express answers 404
Unrouted(method, url) ==
  /\ Routed(method, url) = "none"
  /\ resp' = Response("unrouted", 404, Undef, [method |-> method, url |-> url])
  /\ UNCHANGED <<swaggerData, mockRoutes, stack, pending, loadedOk, call>>

\* every document, every request URL; page and limit left to their defaults
Next ==
  \/ LoadSwaggerNoUrl
  \/ LoadSwaggerFetch(Undef, Undef, Undef, Undef)
  \/ \E i \in 1..MaxPending, outcome \in FetchOutcomes : LoadSwaggerResume(i, outcome)
  \/ GetEndpoints(Undef, Undef, Undef, Undef)
  \/ \E method \in RequestMethods, url \in Urls : MockRequest(method, url)
  \/ \E method \in RequestMethods, url \in Urls : Unrouted(method, url)

Spec == Init /\ [][Next]_vars

\* the documents whose load succeeds, every page, limit and filter, one
\* request at a time
PagedOutcomes == {[ok |-> TRUE, doc |-> i] : i \in {1, 2, 4}}
RawBodyNumbers == {Undef, S("2")}

PageNext ==
  \/ \E qp \in RawNumbers(MaxPage), ql \in RawNumbers(MaxLimit), bp, bl \in RawBodyNumbers :
       pending = <<>> /\ LoadSwaggerFetch(qp, bp, ql, bl)
  \/ \E outcome \in PagedOutcomes : LoadSwaggerResume(1, outcome)
  \/ \E qp \in RawNumbers(MaxPage), ql \in RawNumbers(MaxLimit),
        method \in RawMethods, tag \in RawTags :
       pending = <<>> /\ GetEndpoints(qp, ql, method, tag)

PageSpec == Init /\ [][PageNext]_vars

-----------------------------------------------------------------------------
(* The four functions of the schema engine, applied to the inputs *)

\* documents for the Endpoint Extractor, besides those a load is given
FullOperation ==
  Obj(<< <<"tags", Arr(<<S("admin")>>)>>,
         <<"parameters",
           Arr(<< Obj(<< <<"name", S("id")>>, <<"in", S("path")>>,
                         <<"required", Bool(TRUE)>>, <<"schema", Typed("integer")>> >>),
                  Obj(<< <<"name", S("q")>>, <<"in", S("query")>>,
                         <<"example", S("x")>>, <<"schema", ComponentRef("Alias")>> >>),
                  Obj(<< <<"name", S("h")>>, <<"in", S("header")>> >>) >>)>>,
         <<"requestBody",
           Obj(<< <<"required", Bool(TRUE)>>,
                  <<"content",
                    Obj(<< <<"application/json",
                             Obj(<< <<"schema", ComponentRef("Pet")>> >>)>>,
                           <<"text/plain", Obj(<< <<"example", S("hi")>> >>)>> >>)>> >>)>>,
         <<"responses",
           Obj(<< JsonResponse("200", ComponentRef("Node")),
                  <<"404", Obj(<< <<"headers",
                                    Obj(<< <<"X-Id", Obj(<< <<"schema", Typed("string")>> >>)>> >>)>> >>)>> >>)>> >>)

DocWith(operation) ==
  Document(<< << <<Lit("x"), Brace("id")>>, Obj(<< <<"put", operation>> >>) >> >>, MainTable)

ExtractDocs ==
  Documents \o
  << DocWith(FullOperation),
     \* a response that is null
     DocWith(Obj(<< <<"responses", Obj(<< <<"200", Null>> >>)>> >>)),
     \* a parameters field that is not an array
     DocWith(Obj(<< <<"parameters", S("x")>> >>)),
     \* a parameter that is null
     DocWith(Obj(<< <<"parameters", Arr(<<Null>>)>> >>)),
     \* a parameter schema whose $ref is not a string
     DocWith(Obj(<< <<"parameters",
                      Arr(<<Obj(<< <<"name", S("p")>>,
                                   <<"schema", Obj(<< <<"$ref", Num(5)>> >>)>> >>)>>)>> >>)),
     \* a request body whose schema refers to itself
     DocWith(Obj(<< <<"requestBody",
                      Obj(<< <<"content",
                               Obj(<< <<"application/json",
                                        Obj(<< <<"schema", ComponentRef("Node")>> >>)>> >>)>> >>)>> >>)),
     \* a response schema whose allOf is not an array
     DocWith(OperationWith(Obj(<< <<"allOf", S("x")>> >>))),
     \* an operation that is not an object, a body that is not a document
     DocWith(S("text")),
     S("<html>"),
     Obj(<<>>) >>

Called(fn, node, table, depth, out) ==
  [fn |-> fn, node |-> node, table |-> table, depth |-> depth, out |-> out]

Resolve(n, t) ==
  /\ call' = Called("resolve", n, t, 0, resolveSchema(Nodes[n], Tables[t]))
  /\ UNCHANGED <<swaggerData, mockRoutes, stack, pending, resp, loadedOk>>

Normalize(n, t, depth) ==
  /\ call' = Called("normalize", n, t, depth,
                    extractSchemaStructure(Nodes[n], Tables[t], depth))
  /\ UNCHANGED <<swaggerData, mockRoutes, stack, pending, resp, loadedOk>>

Synthesize(n, t) ==
  /\ call' = Called("synthesize", n, t, 0, generateMockFromSchema(Nodes[n], Tables[t]))
  /\ UNCHANGED <<swaggerData, mockRoutes, stack, pending, resp, loadedOk>>

Extract(d) ==
  /\ call' = Called("extract", d, 0, 0, extractEndpointDetails(ExtractDocs[d]))
  /\ UNCHANGED <<swaggerData, mockRoutes, stack, pending, resp, loadedOk>>

\* the depths a call of the Normalizer is entered with
Depths == {0, 1, MaxDepth, MaxDepth + 1}

PureNext ==
  \/ \E n \in 1..Len(Nodes), t \in 1..Len(Tables) : Resolve(n, t)
  \/ \E n \in 1..Len(Nodes), t \in 1..Len(Tables), depth \in Depths : Normalize(n, t, depth)
  \/ \E n \in 1..Len(Nodes), t \in 1..Len(Tables) : Synthesize(n, t)
  \/ \E d \in 1..Len(ExtractDocs) : Extract(d)

PureSpec == Init /\ [][PureNext]_vars

-----------------------------------------------------------------------------
(* Claims *)

\* C1: a POST /load-swagger that answers 400 or 500 leaves swaggerData,
\* mockRoutes and the routes registered in the router exactly as they were,
\* whatever the point of failure.
C1_FailedLoadChangesNothing ==
  [][(resp'.h = "load" /\ resp'.status \in {400, 500})
       => (swaggerData' = swaggerData /\ mockRoutes' = mockRoutes /\ stack' = stack)]_vars

\* the mock routes registered in the router, as (method, route path) pairs
IsMock(layer) == layer.kind = "mock"
RegisteredRoutes(routerStack) ==
  LET mocks == SelectSeq(routerStack, IsMock)
  IN [i \in 1..Len(mocks) |-> <<mocks[i].method, mocks[i].path>>]
\* one route per (path, method) pair of a document, {x} rewritten to :x
DeclaredRoutes(doc) ==
  LET ops == Operations(Or(Get(doc, "paths"), Obj(<<>>)))
  IN [i \in 1..Len(ops) |-> <<ops[i][2], ExprPath(ops[i][1])>>]
SameRoutes(a, b) ==
  /\ Len(a) = Len(b)
  /\ {a[i] : i \in 1..Len(a)} = {b[i] : i \in 1..Len(b)}

\* C2: after every successful load the registered mock routes are exactly one
\* per (path, method) pair of the newly loaded document; no route of an earlier
\* document remains, also when the new document has no paths.
C2_RoutesAreThoseOfNewDocument ==
  (resp.h = "load" /\ resp.status = 200)
    => SameRoutes(RegisteredRoutes(stack), DeclaredRoutes(swaggerData))

\* C3: the Example Synthesizer terminates on every schema node and component
\* table, self-referencing schemas included: its recursion never runs until
\* the call stack is exhausted.
C3_SynthesizerTerminates ==
  call.fn = "synthesize" => call.out # Throw("RangeError")

\* the sub-results of a normalized schema: its properties, its items and the
\* branches of its composition lists
Branch(r, key) == IF Get(r, key).k = "arr" THEN Get(r, key).e ELSE <<>>
Children(r) ==
  LET props == Get(r, "properties")
      items == Get(r, "items")
  IN (IF props.k = "obj" THEN [i \in 1..Len(props.f) |-> props.f[i][2]] ELSE <<>>)
     \o (IF items = Undef THEN <<>> ELSE <<items>>)
     \o Branch(r, "allOf") \o Branch(r, "anyOf") \o Branch(r, "oneOf")

\* no body of the Normalizer ran beyond MaxDepth: whatever was produced at a
\* greater depth is the sentinel
RECURSIVE BoundedBelow(_, _)
BoundedBelow(r, depth) ==
  IF depth > MaxDepth THEN r = Sentinel
  ELSE \A i \in 1..Len(Children(r)) : BoundedBelow(Children(r)[i], depth + 1)

\* the sentinel is the sub-result at the given depth of some branch
RECURSIVE SentinelAt(_, _, _)
SentinelAt(r, depth, target) ==
  IF depth = target THEN r = Sentinel
  ELSE \E i \in 1..Len(Children(r)) : SentinelAt(Children(r)[i], depth + 1, target)

RECURSIVE HasSentinel(_)
HasSentinel(r) ==
  r = Sentinel \/ \E i \in 1..Len(Children(r)) : HasSentinel(Children(r)[i])

\* the schemas that refer to themselves through ChainLen levels of $ref
CalledNode == Nodes[call.node]
CalledTable == Tables[call.table]
IsCalledOn(fn, node, table) ==
  call.fn = fn /\ call.depth = 0 /\ CalledNode = node /\ CalledTable = table
OnPropertyChain == IsCalledOn("normalize", ComponentRef(ChainName("L", 1)), ChainTable)
OnAliasChain == IsCalledOn("normalize", ComponentRef(ChainName("A", 1)), ChainTable)

DepthBounded ==
  /\ BoundedBelow(call.out, call.depth)
  /\ (call.depth > MaxDepth => call.out = Sentinel)

\* C4 as stated: the Normalizer terminates, runs no body deeper than 10, and
\* for a schema that refers to itself through 20 levels of $ref it returns
\* the sentinel max-depth object.
C4_SelfReferenceReturnsSentinel ==
  call.fn = "normalize" =>
    /\ DepthBounded
    /\ (OnPropertyChain \/ OnAliasChain) => call.out = Sentinel

\* C4 as amended: the Normalizer terminates and runs no body deeper than 10 (a
\* call with depth > 10 returns the sentinel).  For a schema that refers to
\* itself through 20 levels of $ref it terminates; through properties, the
\* result is not the sentinel but a description whose sub-result at depth 11
\* is the sentinel; as bare $ref aliases, only the first $ref is resolved and
\* the result is a description without type and without sentinel.
C4_NormalizerDepthBounded ==
  call.fn = "normalize" =>
    /\ DepthBounded
    /\ OnPropertyChain =>
         /\ call.out # Sentinel
         /\ SentinelAt(call.out, 0, MaxDepth + 1)
    /\ OnAliasChain =>
         /\ call.out.k = "obj"
         /\ Get(call.out, "type") = Undef
         /\ ~HasSentinel(call.out)

C4_Witness == OnPropertyChain /\ SentinelAt(call.out, 0, MaxDepth + 1)

\* whether the load of a document succeeds
LoadSucceeds(doc) ==
  /\ ~setupMocks(doc, <<>>, BuiltinLayers).threw
  /\ ~IsThrow(extractEndpointDetails(doc))

AllLiteral(path) == \A i \in 1..Len(path) : path[i].t = "lit"
LiteralUrl(path) == [i \in 1..Len(path) |-> path[i].n]
\* a request URL is a request to a path template: it substitutes the path
\* parameters, and is not the literal path of another declared template
RequestsPath(path, url, ops) ==
  /\ PathMatches(ExprPath(path), url)
  /\ AllLiteral(path)
       \/ ~\E i \in 1..Len(ops) : AllLiteral(ops[i][1]) /\ LiteralUrl(ops[i][1]) = url

\* what the handler of an operation of the document answers
OwnAnswer(doc, path, method) ==
  LET schema ==
        GetOpt(GetOpt(GetOpt(GetOpt(Get(Get(Get(Get(doc, "paths"), path), method),
                                        "responses"), "200"), "content"),
                      "application/json"), "schema")
  IN IF Truthy(schema)
     THEN generateMockFromSchema(schema,
            Or(GetOpt(Get(doc, "components"), "schemas"), Obj(<<>>)))
     ELSE Obj(<< <<"message", MockedMessage(method, path)>> >>)

\* C5: a request with an operation's method to its path, path parameters
\* substituted, is answered by that operation's own handler: the synthesized
\* example of its 200 JSON schema, else the envelope Mocked <METHOD> <path>;
\* also when several path templates match the request URL.
C5_AnsweredByOwnHandler ==
  (resp.h \in {"mock", "unrouted"} /\ LoadSucceeds(swaggerData)) =>
    LET ops == Operations(Or(Get(swaggerData, "paths"), Obj(<<>>)))
    IN \A i \in 1..Len(ops) :
         ( /\ ops[i][2] = resp.req.method
           /\ RequestsPath(ops[i][1], resp.req.url, ops)
           /\ ~IsThrow(OwnAnswer(swaggerData, ops[i][1], ops[i][2])) )
         => /\ resp.status = 200
            /\ resp.body = OwnAnswer(swaggerData, ops[i][1], ops[i][2])

\* C6: the Normalizer, the Synthesizer and the Endpoint Extractor never raise
\* on structurally malformed input; they return a value.
C6_NeverRaisesOnMalformedInput ==
  call.fn \in {"normalize", "synthesize", "extract"} => call.out # Throw("TypeError")

\* an example value of a primitive type
IsOfType(value, type) ==
  CASE type = S("string") -> value.k = "str"
    [] type \in {S("integer"), S("number")} -> value.k = "num"
    [] type = S("boolean") -> value.k = "bool"
    [] OTHER -> FALSE
DefaultExample(type) ==
  CASE type = S("string") -> S("example string")
    [] type = S("boolean") -> Bool(TRUE)
    [] OTHER -> Num(123)

\* C7: for a resolved node of type string, integer, number or boolean the
\* Synthesizer returns the node's own example whenever one is present, false,
\* 0 and "" included, and the default only when no example is present.
C7_OwnExampleReturned ==
  call.fn = "synthesize" =>
    LET node == CalledNode
        type == Get(node, "type")
        example == Get(node, "example")
    IN (node.k = "obj" /\ Get(node, "$ref") = Undef
          /\ type \in {S("string"), S("integer"), S("number"), S("boolean")})
       => /\ IsOfType(example, type) => call.out = example
          /\ example = Undef => call.out = DefaultExample(type)

\* a $ref string that is not rooted at #/components
IsForeignRef(node) ==
  /\ node.k = "obj"
  /\ Get(node, "$ref").k = "str"
  /\ Truthy(Get(node, "$ref"))
  /\ LET ref == Get(node, "$ref").s
     IN ~(Len(ref) >= 2 /\ ref[1] = "#" /\ ref[2] = "components")

\* C8: the Synthesizer resolves references as the Reference Resolver does:
\* synthesize(node, table) = synthesize(resolve(node, table), table), and a
\* node whose $ref is not rooted at #/components is a literal unresolved node,
\* not looked up in the table by its last segment.
C8_SynthesizerResolvesLikeResolver ==
  call.fn = "synthesize" =>
    LET resolved == resolveSchema(CalledNode, CalledTable)
    IN /\ ~IsThrow(resolved) => call.out = generateMockFromSchema(resolved, CalledTable)
       /\ IsForeignRef(CalledNode) => call.out = S("mock value")

\* the least n with n * limit >= total
CeilQuotient(total, limit) ==
  CHOOSE n \in 0..total : n * limit >= total /\ (n = 0 \/ (n - 1) * limit < total)
\* the elements at positions (page-1)*limit+1 .. min(page*limit, total)
PositionsOf(list, page, limit) ==
  LET lo == (page - 1) * limit + 1
      hi == Min(page * limit, Len(list))
  IN IF lo > hi THEN <<>> ELSE [i \in 1..(hi - lo + 1) |-> list[lo + i - 1]]
\* the (filtered) list the answered request paginates
PaginatedList ==
  IF resp.h = "load" THEN extractEndpointDetails(swaggerData).e
  ELSE Filtered(extractEndpointDetails(swaggerData), resp.req.method, resp.req.tag).e
Numbered(n) == Arr([i \in 1..n |-> Num(i)])

\* C9: for a (filtered) list of T endpoints, page p >= 1 and limit l >= 1, the
\* answer of POST /load-swagger and of GET /endpoints carries the endpoints at
\* positions (p-1)*l+1 .. min(p*l, T), total = T, totalPages = ceil(T/l),
\* hasNextPage = (p < totalPages), hasPreviousPage = (p > 1); the pages
\* 1..totalPages together hold every endpoint exactly once; T = 120, page 2,
\* limit 50 gives endpoints 51-100 with both flags true.
C9_Pagination ==
  (resp.h \in {"load", "endpoints"} /\ resp.status = 200
     /\ resp.req.page >= 1 /\ resp.req.limit >= 1) =>
    LET list == PaginatedList
        p == resp.req.page
        l == resp.req.limit
        pages == CeilQuotient(Len(list), l)
        pagination == Get(resp.body, "pagination")
        many == Paginate(Numbered(ManyEndpoints), 2, DefaultLimit)
    IN /\ Get(resp.body, "endpoints") = Arr(PositionsOf(list, p, l))
       /\ Get(pagination, "page") = Num(p)
       /\ Get(pagination, "limit") = Num(l)
       /\ Get(pagination, "total") = Num(Len(list))
       /\ Get(pagination, "totalPages") = Num(pages)
       /\ Get(pagination, "hasNextPage") = Bool(p < pages)
       /\ Get(pagination, "hasPreviousPage") = Bool(p > 1)
       /\ Flatten([q \in 1..pages |-> Paginate(Arr(list), q, l).endpoints.e]) = list
       /\ many.endpoints = Arr([i \in 1..DefaultLimit |-> Num(DefaultLimit + i)])
       /\ Get(many.pagination, "hasNextPage") = Bool(TRUE)
       /\ Get(many.pagination, "hasPreviousPage") = Bool(TRUE)

\* a second page of one endpoint out of three, with a page before and after
C9_Witness ==
  /\ resp.h = "endpoints" /\ resp.status = 200
  /\ resp.req.page = 2 /\ resp.req.limit = 1
  /\ Len(PaginatedList) = 3
  /\ Len(Get(resp.body, "endpoints").e) = 1

\* C10: GET /endpoints answers 404 as long as no load has succeeded, failed
\* loads notwithstanding, and once a load has succeeded every later GET
\* /endpoints answers the pagination/endpoints body, not 404.
C10_EndpointsAfterSuccessfulLoad ==
  resp.h = "endpoints" => resp.status = (IF loadedOk THEN 200 ELSE 404)


\* the component table of a document, as setupMocks reads it
ComponentsOf(doc) == Or(GetOpt(Get(doc, "components"), "schemas"), Obj(<<>>))

\* the operations a document declares: none when it has no `paths`
DeclaredOperations(doc) ==
  IF IsNullish(doc) \/ ~Truthy(Get(doc, "paths")) THEN <<>>
  ELSE Operations(Get(doc, "paths"))

\* the route layer was registered from this document: its path and method are
\* an operation the document declares, and the component table its handler
\* captured is the document's
LayerOf(layer, doc) ==
  /\ \E i \in 1..Len(DeclaredOperations(doc)) :
        /\ DeclaredOperations(doc)[i][1] = layer.tpl
        /\ DeclaredOperations(doc)[i][2] = layer.method
  /\ layer.components = ComponentsOf(doc)

\* C11: every mock request is served from one single document, the one of
\* the load that completed most recently: the route that matched it, the
\* operation schema its handler read from swaggerData and the component table
\* the handler captured all belong to that document, so state of two
\* different loads is never mixed.
C11_ServedFromOneDocument ==
  (resp.h = "mock" /\ LoadSucceeds(swaggerData))
    => LayerOf(stack[resp.req.layer], swaggerData)


\* the route app.post("/load-swagger") or app.get("/endpoints") is in the
\* router, and a request to it reaches it
BuiltinServes(kind, method, url) ==
  /\ \E i \in 1..Len(stack) : stack[i].kind = kind
  /\ Routed(method, url) = kind

\* C12: POST /load-swagger and GET /endpoints stay registered and keep their
\* built-in behaviour after any sequence of loads, whatever paths the loaded
\* documents declare, the paths /load-swagger and /endpoints included:
\* clearing the mock routes of an earlier document never removes a built-in
\* route.
C12_BuiltinRoutesStay ==
  /\ BuiltinServes("load", "post", <<"load-swagger">>)
  /\ BuiltinServes("endpoints", "get", <<"endpoints">>)
====
